---- MODULE Spec2Model ----
(***************************************************************************)
(* A model of the ELD trip planner front end: decodePolyline (utils), the   *)
(* RouteMap component that calls it (bounds, markers), the address          *)
(* autocomplete of LocationInputField, the TripForm wizard, App and the    *)
(* API client's error interceptor.                                         *)
(*                                                                         *)
(* Strings are sequences of UTF-16 code units, so encoded.charCodeAt(i) is *)
(* encoded[i + 1].  JavaScript's bitwise operators work on 32-bit two's    *)
(* complement integers; they are modelled on the bits (Low31 / FromBits).    *)
(* A coordinate lat / 1e5 is kept as the exact fraction in lowest terms:   *)
(* for the magnitudes that occur, distinct fractions n / 100000 are        *)
(* distinct doubles, so equality of fractions is equality of the numbers   *)
(* the code returns.                                                       *)
(***************************************************************************)
EXTENDS Integers, Sequences, FiniteSets, TLC

VARIABLES
    polyline,          \* RouteMap: the prop route.polyline (string | null)
    routeCoordinates,  \* RouteMap: the memoised value of routeCoordinates
    caller,            \* who entered decodePolyline: "none", "direct", "RouteMap"
    outcome,           \* how the last entry ended: "none", "returned", "threw"
    pc,                \* position inside decodePolyline
    encoded,           \* decodePolyline: its parameter
    points,            \* decodePolyline: const points
    index,             \* decodePolyline: let index
    lat,               \* decodePolyline: let lat
    lng,               \* decodePolyline: let lng
    shift,             \* decodePolyline: let shift
    result,            \* decodePolyline: let result
    byte,              \* decodePolyline: let byte
    start,             \* history: value of index where the current value began
    readLog,           \* history: the positions handed to charCodeAt, in order
    firstInput,        \* history: the argument of the first completed call
    firstOutput,       \* history: the array the first completed call returned
    source,            \* backend: the coordinates the string was encoded from
    waypoints,         \* RouteMap: the prop route.waypoints
    stops,             \* RouteMap: the prop stops
    view,              \* RouteMap: how far the render has come
    bounds,            \* RouteMap: the memoised value of bounds
    fitted,            \* MapBoundsSetter: the bounds handed to map.fitBounds
    positions,         \* RouteMap: the positions of the <Polyline> rendered
    waypointMarkers,   \* RouteMap: the <Marker>s rendered for the waypoints
    stopMarkers,       \* RouteMap: the <Marker>s rendered for the stops
    value,             \* LocationInputField: the prop value
    inputMode,         \* LocationInputField: state inputMode
    debouncedAddress,  \* LocationInputField: useDebounce(value.address, 300)
    lastSelectedAddress, \* LocationInputField: the ref lastSelectedAddress
    suggestions,       \* LocationInputField: state suggestions
    showSuggestions,   \* LocationInputField: state showSuggestions
    isLoadingSuggestions, \* LocationInputField: state isLoadingSuggestions
    inFlight,          \* LocationInputField: the fetches awaiting a response
    fetchCount,        \* history: the number of fetches issued so far
    applied,           \* history: the fetch whose response last set suggestions
    latestDone,        \* history: the newest fetch's response has been applied
    formData,          \* TripForm: state formData
    validationError,   \* TripForm: state validationError
    currentStep,       \* TripForm: state currentStep
    isTransitioning,   \* TripForm: state isTransitioning
    locating,          \* TripForm: fields with a geolocation request pending
    onSubmitCall,      \* history: the step and validity at the last onSubmit
    isLoading,         \* App: state isLoading
    error,             \* App: state error (string | null)
    tripResult,        \* App: state tripResult
    pending,           \* App: the planTrip requests that have not settled
    caught,            \* App.handleSubmit: err of the catch block, if it ran
    timers,            \* useDebounce: the timeouts set and not yet cleared or run
    sinceChange        \* history: ms since value.address last changed, up to Delay

\* the props of RouteMap besides route.polyline
propVars == <<waypoints, stops>>

\* what RouteMap computes after routeCoordinates
viewVars == <<view, bounds, fitted, positions, waypointMarkers, stopMarkers>>

\* the address autocomplete of one LocationInputField
autoVars == <<value, inputMode, debouncedAddress, lastSelectedAddress,
              suggestions, showSuggestions, isLoadingSuggestions, inFlight,
              fetchCount, applied, latestDone>>

\* the TripForm wizard
formVars == <<formData, validationError, currentStep, isTransitioning,
              locating, onSubmitCall>>

\* App, and the timeouts of useDebounce
restVars == <<isLoading, error, tripResult, pending, caught, timers, sinceChange>>

\* everything outside decodePolyline and the routeCoordinates memo
uiVars == <<propVars, viewVars, autoVars, formVars, restVars>>

\* the variables of decodePolyline and of the routeCoordinates memo
decodeVars == <<polyline, routeCoordinates, caller, outcome, pc, encoded,
                points, index, lat, lng, shift, result, byte, start, readLog,
                firstInput, firstOutput, source>>

vars == <<decodeVars, uiVars>>

-----------------------------------------------------------------------------
(* Bounds of the model.                                                    *)

\* longest string drawn over Alphabet
MaxLen == 3
\* most points in an encoded coordinate sequence
MaxPts == 2
\* most continuation characters in front of the terminator of a long value
MaxCont == 7
\* longest string drawn over Alphabet when calls repeat
CallLen == 2

-----------------------------------------------------------------------------
(* JavaScript numbers and 32-bit integer operators.                        *)

\* a number that is either NaN or an integer
NaN == [nan |-> TRUE, val |-> 0]

Num(n) == [nan |-> FALSE, val |-> n]

\* String.prototype.charCodeAt: NaN when the position is out of range
CharCodeAt(s, i) == IF i >= 0 /\ i < Len(s) THEN Num(s[i + 1]) ELSE NaN

\* n - k on numbers: NaN stays NaN
Minus(n, k) == IF n.nan THEN NaN ELSE Num(n.val - k)

\* n >= k on numbers: every comparison with NaN is false
GreaterEq(n, k) == ~n.nan /\ n.val >= k

\* ToInt32 of a number: NaN becomes 0 (char codes minus 63 fit 32 bits)
ToInt32(n) == IF n.nan THEN 0 ELSE n.val

Pow2(i) == 2 ^ i

\* bit 31 of a two's complement integer
SignBit(x) == IF x < 0 THEN 1 ELSE 0

\* bits 0..30 of a two's complement integer, as a natural number
Low31(x) == IF x < 0 THEN (x + Pow2(30)) + Pow2(30) ELSE x

\* the two's complement integer with bit 31 = s and bits 0..30 = low
FromBits(s, low) == IF s = 1 THEN (low - Pow2(30)) - Pow2(30) ELSE low

\* the bitwise or of two natural numbers
OrNat[a \in Nat, b \in Nat] ==
    IF a = 0 THEN b
    ELSE IF b = 0 THEN a
    ELSE (IF a % 2 = 1 \/ b % 2 = 1 THEN 1 ELSE 0)
             + 2 * OrNat[a \div 2, b \div 2]

\* the bitwise and of two natural numbers
AndNat[a \in Nat, b \in Nat] ==
    IF a = 0 \/ b = 0 THEN 0
    ELSE (IF a % 2 = 1 /\ b % 2 = 1 THEN 1 ELSE 0)
             + 2 * AndNat[a \div 2, b \div 2]

\* a | b
Or32(a, b) ==
    FromBits(IF a < 0 \/ b < 0 THEN 1 ELSE 0, OrNat[Low31(a), Low31(b)])

\* a & b
And32(a, b) ==
    FromBits(IF a < 0 /\ b < 0 THEN 1 ELSE 0, AndNat[Low31(a), Low31(b)])

\* a << s: the shift count is taken modulo 32, bits shifted out are lost
Shl32(a, s) ==
    LET k == s % 32
    IN  IF k = 0 THEN a
        ELSE FromBits((Low31(a) \div Pow2(31 - k)) % 2,
                      (Low31(a) % Pow2(31 - k)) * Pow2(k))

\* a >> s: arithmetic shift, the sign bit is copied in
Sar32(a, s) ==
    LET k == s % 32
    IN  IF k = 31 THEN -SignBit(a) ELSE a \div Pow2(k)

\* ~a: every bit flipped
Not32(a) == FromBits(1 - SignBit(a), 2147483647 - Low31(a))

-----------------------------------------------------------------------------
(* Coordinates.                                                            *)

\* the divisor of lat / 1e5 and lng / 1e5
Scale == 100000

\* the divisors of the scale
ScaleDivisors == {d \in 1..Scale : Scale % d = 0}

\* the greatest common divisor of the scale and n
GCDScale(n) ==
    CHOOSE d \in ScaleDivisors :
        /\ n % d = 0
        /\ \A e \in ScaleDivisors : n % e = 0 => e <= d

\* n / 1e5 as a fraction in lowest terms
Div1e5(n) ==
    LET g == GCDScale(n)
    IN  [num |-> n \div g, den |-> Scale \div g]

\* mutant: the pair in the order [lng, lat]
PointSwapped(la, ln) == <<Div1e5(ln), Div1e5(la)>>

\* [lat / 1e5, lng / 1e5]
Point(la, ln) == <<Div1e5(la), Div1e5(ln)>>

\* no coordinate sequence: the string did not come from the encoder
NoSource == [given |-> FALSE, coords |-> <<>>]

-----------------------------------------------------------------------------
(* decodePolyline.                                                         *)

\* mutant: the mask 0x3f lets the continuation bit into the value
ChunkMask6(b, s) == Shl32(And32(ToInt32(b), 63), s)

\* (byte & 0x1f) << shift
Chunk(b, s) == Shl32(And32(ToInt32(b), 31), s)

\* mutant: the chunk is shifted by one bit less
AccumulateShiftedShort(r, b, s) ==
    Or32(r, Shl32(And32(ToInt32(b), 31), IF s > 0 THEN s - 1 ELSE 0))

\* result |= (byte & 0x1f) << shift
Accumulate(r, b, s) == Or32(r, Chunk(b, s))

\* mutant: arithmetic negation in place of the complement
ZigZagNegate(r) == IF And32(r, 1) # 0 THEN -Sar32(r, 1) ELSE Sar32(r, 1)

\* mutant: the sign bit is dropped and never applied
ZigZagShiftOnly(r) == Sar32(r, 1)

\* (result & 1) !== 0 ? ~(result >> 1) : result >> 1
ZigZag(r) == IF And32(r, 1) # 0 THEN Not32(Sar32(r, 1)) ELSE Sar32(r, 1)

\* byte >= 0x20
Continues(b) == GreaterEq(b, 32)

\* mutant: the array is created once, outside the function
FreshLocalsHoisted ==
    [points |-> points, index |-> 0, lat |-> 0, lng |-> 0]

\* the values of the locals as the function body declares them
FreshLocals ==
    [points |-> <<>>, index |-> 0, lat |-> 0, lng |-> 0]

\* entry into decodePolyline(s)
Enter(s, who) ==
    /\ encoded' = s
    /\ caller' = who
    /\ points' = FreshLocals.points
    /\ index' = FreshLocals.index
    /\ lat' = FreshLocals.lat
    /\ lng' = FreshLocals.lng
    /\ shift' = 0
    /\ result' = 0
    /\ byte' = NaN
    /\ start' = 0
    /\ readLog' = <<>>
    /\ pc' = "while"

\* while (index < encoded.length) { let shift = 0; let result = 0; let byte; ...
WhileTest ==
    /\ pc = "while"
    /\ IF index < Len(encoded)
       THEN /\ shift' = 0
            /\ result' = 0
            /\ byte' = NaN
            /\ start' = index
            /\ pc' = "latdo"
       ELSE /\ pc' = "return"
            /\ UNCHANGED <<shift, result, byte, start>>
    /\ UNCHANGED <<polyline, routeCoordinates, caller, outcome, encoded, points,
                   index, lat, lng, readLog, firstInput, firstOutput, source>>
    /\ UNCHANGED uiVars

\* mutant: the cursor advances only past continuation characters
DoBodyKeepsTerminator(here, after) ==
    /\ pc = here
    /\ LET b == Minus(CharCodeAt(encoded, index), 63)
       IN  /\ byte' = b
           /\ result' = Or32(result, Shl32(And32(ToInt32(b), 31), shift))
           /\ pc' = IF GreaterEq(b, 32) THEN here ELSE after
           /\ index' = IF GreaterEq(b, 32) THEN index + 1 ELSE index
    /\ shift' = shift + 5
    /\ readLog' = Append(readLog, index)
    /\ UNCHANGED <<polyline, routeCoordinates, caller, outcome, encoded, points,
                   lat, lng, start, firstInput, firstOutput, source>>
    /\ UNCHANGED uiVars

\* do { byte = encoded.charCodeAt(index++) - 63; result |= ...; shift += 5 }
\* while (byte >= 0x20)
DoBody(here, after) ==
    /\ pc = here
    /\ LET b == Minus(CharCodeAt(encoded, index), 63)
       IN  /\ byte' = b
           /\ result' = Accumulate(result, b, shift)
           /\ pc' = IF Continues(b) THEN here ELSE after
    /\ index' = index + 1
    /\ shift' = shift + 5
    /\ readLog' = Append(readLog, index)
    /\ UNCHANGED <<polyline, routeCoordinates, caller, outcome, encoded, points,
                   lat, lng, start, firstInput, firstOutput, source>>
    /\ UNCHANGED uiVars

ReadLatChar == DoBody("latdo", "latend")

\* mutant: the delta replaces the running latitude
AddLatAbsolute ==
    /\ pc = "latend"
    /\ lat' = IF And32(result, 1) # 0 THEN Not32(Sar32(result, 1))
              ELSE Sar32(result, 1)
    /\ shift' = 0
    /\ result' = 0
    /\ start' = index
    /\ pc' = "lngdo"
    /\ UNCHANGED <<polyline, routeCoordinates, caller, outcome, encoded, points,
                   index, lng, byte, readLog, firstInput, firstOutput, source>>
    /\ UNCHANGED uiVars

\* const dlat = ...; lat += dlat; shift = 0; result = 0
AddLat ==
    /\ pc = "latend"
    /\ lat' = lat + ZigZag(result)
    /\ shift' = 0
    /\ result' = 0
    /\ start' = index
    /\ pc' = "lngdo"
    /\ UNCHANGED <<polyline, routeCoordinates, caller, outcome, encoded, points,
                   index, lng, byte, readLog, firstInput, firstOutput, source>>
    /\ UNCHANGED uiVars

ReadLngChar == DoBody("lngdo", "lngend")

\* const dlng = ...; lng += dlng; points.push([lat / 1e5, lng / 1e5])
AddLng ==
    /\ pc = "lngend"
    /\ lng' = lng + ZigZag(result)
    /\ points' = Append(points, Point(lat, lng + ZigZag(result)))
    /\ pc' = "while"
    /\ UNCHANGED <<polyline, routeCoordinates, caller, outcome, encoded, index,
                   lat, shift, result, byte, start, readLog, firstInput,
                   firstOutput, source>>
    /\ UNCHANGED uiVars

\* return points: the caller holds the array, the other locals are gone
Return ==
    /\ pc = "return"
    /\ pc' = "idle"
    /\ outcome' = "returned"
    /\ routeCoordinates' = IF caller = "RouteMap" THEN points ELSE routeCoordinates
    /\ firstInput' = IF outcome = "none" THEN encoded ELSE firstInput
    /\ firstOutput' = IF outcome = "none" THEN points ELSE firstOutput
    /\ index' = 0
    /\ lat' = 0
    /\ lng' = 0
    /\ shift' = 0
    /\ result' = 0
    /\ byte' = NaN
    /\ start' = 0
    /\ UNCHANGED <<polyline, caller, encoded, points, readLog, source>>
    /\ UNCHANGED uiVars

\* the steps of one call, which run to completion once the call is entered
DecodeStep ==
    \/ WhileTest
    \/ ReadLatChar
    \/ AddLat
    \/ ReadLngChar
    \/ AddLng
    \/ Return

\* a call decodePolyline(s) from outside RouteMap
CallDecode(s) ==
    /\ pc = "idle"
    /\ Enter(s, "direct")
    /\ source' = NoSource
    /\ UNCHANGED <<polyline, routeCoordinates, outcome, firstInput, firstOutput>>
    /\ UNCHANGED uiVars

-----------------------------------------------------------------------------
(* RouteMap.routeCoordinates.                                              *)

\* a value of type string | null | undefined
Null == [isNull |-> TRUE, chars |-> <<>>]

Str(s) == [isNull |-> FALSE, chars |-> s]

\* mutant: only the empty string is tested
FalsyEmptyOnly(p) == ~p.isNull /\ p.chars = <<>>

\* !route.polyline: null, undefined and "" are falsy
Falsy(p) == p.isNull \/ p.chars = <<>>

\* useMemo(() => { if (!route.polyline) return [];
\*                 return decodePolyline(route.polyline); })
\* decodePolyline reads encoded.length first, which throws on null
RouteCoordinates(p) ==
    /\ pc = "idle"
    /\ polyline' = p
    /\ IF Falsy(p)
       THEN /\ routeCoordinates' = <<>>
            /\ outcome' = "returned"
            /\ caller' = "RouteMap"
            /\ UNCHANGED <<pc, encoded, points, index, lat, lng, shift,
                           result, byte, start, readLog>>
       ELSE IF p.isNull
       THEN /\ outcome' = "threw"
            /\ caller' = "RouteMap"
            /\ UNCHANGED <<pc, routeCoordinates, encoded, points, index, lat,
                           lng, shift, result, byte, start, readLog>>
       ELSE /\ Enter(p.chars, "RouteMap")
            /\ UNCHANGED <<routeCoordinates, outcome>>
    /\ source' = NoSource
    /\ UNCHANGED <<firstInput, firstOutput>>
    /\ UNCHANGED <<autoVars, formVars, restVars>>

-----------------------------------------------------------------------------
(* Inputs.                                                                 *)

\* '>' (byte -1), '?' (0), '@' (1), '_' (32), '`' (33), '~' (63)
Alphabet == {62, 63, 64, 95, 96, 126}

RECURSIVE StringsUpTo(_)
StringsUpTo(n) ==
    IF n = 0 THEN {<<>>}
    ELSE LET shorter == StringsUpTo(n - 1)
         IN  shorter \cup {Append(s, c) : s \in shorter, c \in Alphabet}

\* "_p~iF~ps|U_ulLnnqC_mqNvxq`@"
Reference ==
    <<95, 112, 126, 105, 70, 126, 112, 115, 124, 85, 95, 117, 108, 76, 110,
      110, 113, 67, 95, 109, 113, 78, 118, 120, 113, 96, 64>>

\* one value of k continuation characters c and the terminator t, then "?"
\* (a longitude value of 0)
Repeat(c, k) == [i \in 1..k |-> c]

LongValues ==
    {Repeat(c, k) \o <<t, 63>> : c \in {95, 126}, t \in {63, 64, 65, 94},
                                 k \in 0..MaxCont}

Inputs == StringsUpTo(MaxLen) \cup {Reference} \cup LongValues

Polylines == {Null} \cup {Str(s) : s \in StringsUpTo(CallLen) \cup {Reference}}

-----------------------------------------------------------------------------
(* The backend's encoder: the polyline algorithm at precision 1e5 (delta,  *)
(* zigzag, 5-bit chunks, continuation bit 0x20, offset 63).                *)

\* round(c * 1e5) of a coordinate that is a multiple of 1e-5
Scaled(c) == c.num * (Scale \div c.den)

\* d < 0 ? ~(d << 1) : d << 1
ZigZagEncode(d) == IF d < 0 THEN -(2 * d) - 1 ELSE 2 * d

RECURSIVE EncodeUnsigned(_)
EncodeUnsigned(v) ==
    IF v >= 32 THEN <<(32 + (v % 32)) + 63>> \o EncodeUnsigned(v \div 32)
    ELSE <<v + 63>>

EncodeValue(d) == EncodeUnsigned(ZigZagEncode(d))

RECURSIVE EncodeFrom(_, _, _)
EncodeFrom(cs, prevLat, prevLng) ==
    IF cs = <<>> THEN <<>>
    ELSE LET la == Scaled(Head(cs)[1])
             ln == Scaled(Head(cs)[2])
         IN  EncodeValue(la - prevLat) \o EncodeValue(ln - prevLng)
                 \o EncodeFrom(Tail(cs), la, ln)

Encode(cs) == EncodeFrom(cs, 0, 0)

\* latitudes and longitudes in units of 1e-5 degree, the range limits among them
Lats == {-9000000, -1, 0, 9000000}

Lngs == {-18000000, 0, 16, 18000000}

Coordinates == {Point(la, ln) : la \in Lats, ln \in Lngs}

RECURSIVE CoordSeqsUpTo(_)
CoordSeqsUpTo(n) ==
    IF n = 0 THEN {<<>>}
    ELSE LET shorter == CoordSeqsUpTo(n - 1)
         IN  shorter \cup {Append(cs, c) : cs \in shorter, c \in Coordinates}

CoordSeqs == CoordSeqsUpTo(MaxPts)

\* decodePolyline on the encoding of a coordinate sequence
CallEncoded(cs) ==
    /\ pc = "idle"
    /\ Enter(Encode(cs), "direct")
    /\ source' = [given |-> TRUE, coords |-> cs]
    /\ UNCHANGED <<polyline, routeCoordinates, outcome, firstInput, firstOutput>>
    /\ UNCHANGED uiVars

-----------------------------------------------------------------------------
(* RouteMap: bounds, markers, MapBoundsSetter.                             *)

\* a whole number of degrees as a coordinate
Deg(n) == [num |-> n, den |-> 1]

\* a <= b on coordinates (the denominators are positive)
LessEq(a, b) == a.num * b.den <= b.num * a.den

\* a stop's lat or lng, of type number | null
NullCoord == [isNull |-> TRUE, num |-> 0, den |-> 1]

Known(c) == [isNull |-> FALSE, num |-> c.num, den |-> c.den]

\* JavaScript truthiness of number | null: null and 0 are falsy
Truthy(c) == ~c.isNull /\ c.num # 0

\* the values of axis k (1 = lat, 2 = lng) over a list of points
Axis(pts, k) == {pts[i][k] : i \in 1..Len(pts)}

Least(S) == CHOOSE x \in S : \A y \in S : LessEq(x, y)

Greatest(S) == CHOOSE x \in S : \A y \in S : LessEq(y, x)

\* mutant: the bounds of the first point alone
LatLngBoundsFirstOnly(pts) ==
    IF pts = <<>>
    THEN [valid |-> FALSE, southWest |-> <<>>, northEast |-> <<>>]
    ELSE [valid |-> TRUE, southWest |-> pts[1], northEast |-> pts[1]]

\* mutant: the rectangle starts out at (0, 0) and is extended from there
LatLngBoundsFromOrigin(pts) ==
    IF pts = <<>>
    THEN [valid |-> FALSE, southWest |-> <<>>, northEast |-> <<>>]
    ELSE [valid |-> TRUE,
          southWest |-> <<Least(Axis(pts, 1) \cup {Deg(0)}),
                          Least(Axis(pts, 2) \cup {Deg(0)})>>,
          northEast |-> <<Greatest(Axis(pts, 1) \cup {Deg(0)}),
                          Greatest(Axis(pts, 2) \cup {Deg(0)})>>]

\* L.latLngBounds(points): a rectangle extended by every point in turn; it has
\* no corners, and isValid() is false, when there are no points
LatLngBounds(pts) ==
    IF pts = <<>>
    THEN [valid |-> FALSE, southWest |-> <<>>, northEast |-> <<>>]
    ELSE [valid |-> TRUE,
          southWest |-> <<Least(Axis(pts, 1)), Least(Axis(pts, 2))>>,
          northEast |-> <<Greatest(Axis(pts, 1)), Greatest(Axis(pts, 2))>>]

\* L.latLngBounds([[25, -125], [49, -66]])
DefaultBounds ==
    LatLngBounds(<< <<Deg(25), Deg(-125)>>, <<Deg(49), Deg(-66)>> >>)

\* [...routeCoordinates, ...route.waypoints.map((w) => [w.lat, w.lng])]
AllPoints(rc, ws) == rc \o [i \in 1..Len(ws) |-> <<ws[i].lat, ws[i].lng>>]

\* mutant: the empty list is handed to L.latLngBounds like any other
BoundsNoDefault(rc, ws) == LatLngBounds(AllPoints(rc, ws))

\* the body of useMemo(() => { ... }, [routeCoordinates, route.waypoints])
Bounds(rc, ws) ==
    IF Len(AllPoints(rc, ws)) = 0 THEN DefaultBounds
    ELSE LatLngBounds(AllPoints(rc, ws))

\* createCustomIcon(color, label)
CreateCustomIcon(color, label) ==
    [defined |-> TRUE, color |-> color, label |-> label]

\* the value of a property the object does not have
Undefined == [defined |-> FALSE, color |-> "", label |-> ""]

\* const waypointIcons = { current: ..., pickup: ..., dropoff: ... }
waypointIcons ==
    [current |-> CreateCustomIcon("#2196f3", "S"),
     pickup  |-> CreateCustomIcon("#ff9800", "P"),
     dropoff |-> CreateCustomIcon("#4caf50", "D")]

\* waypointIcons[type]: undefined when the object has no such property
WaypointIcon(type) ==
    IF type \in DOMAIN waypointIcons THEN waypointIcons[type] ELSE Undefined

\* table[key] || fallback, for a table of non-empty strings
OrElse(table, key, fallback) ==
    IF key \in DOMAIN table THEN table[key] ELSE fallback

\* getStopTypeName: names[type] || type
getStopTypeName(type) ==
    OrElse([PICKUP |-> "Pickup", DROPOFF |-> "Dropoff", FUEL |-> "Fuel Stop",
            REST_BREAK |-> "Rest Break", OFF_DUTY |-> "Off Duty"],
           type, type)

\* mutant: an unknown type is given the colour of a fuel stop
getStopTypeColorFuel(type) ==
    OrElse([PICKUP |-> "#2196f3", DROPOFF |-> "#4caf50", FUEL |-> "#ff9800",
            REST_BREAK |-> "#9c27b0", OFF_DUTY |-> "#607d8b"],
           type, "#ff9800")

\* getStopTypeColor: colors[type] || '#000000'
getStopTypeColor(type) ==
    OrElse([PICKUP |-> "#2196f3", DROPOFF |-> "#4caf50", FUEL |-> "#ff9800",
            REST_BREAK |-> "#9c27b0", OFF_DUTY |-> "#607d8b"],
           type, "#000000")

\* stopIcon: the labels are the glyphs U+26FD (fuel pump), U+2615 (hot
\* beverage) and U+1F6CF (bed); the fallback is U+2022 (bullet)
stopIcon(type) ==
    CreateCustomIcon(getStopTypeColor(type),
                     OrElse([FUEL |-> "U+26FD", REST_BREAK |-> "U+2615",
                             OFF_DUTY |-> "U+1F6CF"],
                            type, "U+2022"))

\* mutant: the type is not looked at
ShownOnMapAnyType(stop) == Truthy(stop.lat) /\ Truthy(stop.lng)

\* stop.lat && stop.lng && !['PICKUP', 'DROPOFF'].includes(stop.type)
ShownOnMap(stop) ==
    /\ Truthy(stop.lat)
    /\ Truthy(stop.lng)
    /\ stop.type \notin {"PICKUP", "DROPOFF"}

\* <Marker position={[stop.lat!, stop.lng!]} icon={stopIcon(stop.type)}> for
\* one stop, with the name and the colour its popup shows
StopMarker(stop) ==
    [stop |-> stop,
     position |-> <<stop.lat, stop.lng>>,
     icon |-> stopIcon(stop.type),
     name |-> getStopTypeName(stop.type),
     color |-> getStopTypeColor(stop.type)]

\* <Marker position={[waypoint.lat, waypoint.lng]}
\*         icon={waypointIcons[waypoint.type]}>
WaypointMarker(waypoint) ==
    [position |-> <<waypoint.lat, waypoint.lng>>,
     icon |-> WaypointIcon(waypoint.type)]

\* RouteMap is rendered with the props route and stops: the first memo
RenderRouteMap(p, ws, ss) ==
    /\ view = "none"
    /\ RouteCoordinates(p)
    /\ waypoints' = ws
    /\ stops' = ss
    /\ view' = "routeCoordinates"
    /\ UNCHANGED <<bounds, fitted, positions, waypointMarkers, stopMarkers>>

\* the second memo, once routeCoordinates has its value
BoundsMemo ==
    /\ view = "routeCoordinates"
    /\ pc = "idle"
    /\ outcome = "returned"
    /\ bounds' = Bounds(routeCoordinates, waypoints)
    /\ view' = "bounds"
    /\ UNCHANGED <<decodeVars, propVars, fitted, positions, waypointMarkers,
                   stopMarkers, autoVars, formVars, restVars>>

\* the elements RouteMap returns: the <Polyline> when there are route
\* coordinates (positions is empty when there is none), the waypoint markers,
\* the markers of the stops the filter keeps
ReturnElements ==
    /\ view = "bounds"
    /\ positions' = IF Len(routeCoordinates) > 0 THEN routeCoordinates ELSE <<>>
    /\ waypointMarkers' =
           [i \in 1..Len(waypoints) |-> WaypointMarker(waypoints[i])]
    /\ stopMarkers' =
           LET kept == SelectSeq(stops, ShownOnMap)
           IN  [i \in 1..Len(kept) |-> StopMarker(kept[i])]
    /\ view' = "elements"
    /\ UNCHANGED <<decodeVars, propVars, bounds, fitted, autoVars, formVars, restVars>>

\* MapBoundsSetter's effect: if (bounds.isValid()) map.fitBounds(bounds, ...)
MapBoundsSetter ==
    /\ view = "elements"
    /\ fitted' = IF bounds.valid THEN bounds ELSE fitted
    /\ view' = "done"
    /\ UNCHANGED <<decodeVars, propVars, bounds, positions, waypointMarkers,
                   stopMarkers, autoVars, formVars, restVars>>

\* longest string drawn over Alphabet for route.polyline
MapLen == 1
\* most waypoints of a route
MaxWaypoints == 2
\* most stops of a trip
MaxStops == 2

RECURSIVE SeqsUpTo(_, _)
SeqsUpTo(S, n) ==
    IF n = 0 THEN {<<>>}
    ELSE LET shorter == SeqsUpTo(S, n - 1)
         IN  shorter \cup {Append(s, x) : s \in shorter, x \in S}

MapPolylines == {Null} \cup {Str(s) : s \in StringsUpTo(MapLen) \cup {Reference}}

\* the three roles the backend documents and one it does not
WaypointTypes == {"current", "pickup", "dropoff", "via"}

\* (40.0, -105.0) and a place south of the equator and east of Greenwich
WaypointPlaces == {<<Deg(40), Deg(-105)>>, <<Deg(-34), Deg(151)>>}

\* every place as the current location, every role at the first place
Waypoints ==
    {[lat |-> pl[1], lng |-> pl[2], type |-> "current"] : pl \in WaypointPlaces}
        \cup {[lat |-> Deg(40), lng |-> Deg(-105), type |-> ty] :
                  ty \in WaypointTypes}

WaypointSeqs == SeqsUpTo(Waypoints, MaxWaypoints)

\* the five types of StopType and one outside them
StopTypes ==
    {"PICKUP", "DROPOFF", "FUEL", "REST_BREAK", "OFF_DUTY", "INSPECTION"}

\* (34.0, -118.0), (36.0, -119.0), places on the equator and on the prime
\* meridian, places with no coordinates
StopPlaces ==
    {<<Known(Deg(34)), Known(Deg(-118))>>,
     <<Known(Deg(36)), Known(Deg(-119))>>,
     <<Known(Deg(0)), Known(Deg(-119))>>,
     <<Known(Deg(36)), Known(Deg(0))>>,
     <<NullCoord, Known(Deg(-119))>>,
     <<Known(Deg(36)), NullCoord>>,
     <<NullCoord, NullCoord>>}

\* a fuel stop at every place, a stop of every type at the first place
Stops ==
    {[lat |-> pl[1], lng |-> pl[2], type |-> "FUEL"] : pl \in StopPlaces}
        \cup {[lat |-> Known(Deg(34)), lng |-> Known(Deg(-118)), type |-> ty] :
                  ty \in StopTypes}

StopSeqs == SeqsUpTo(Stops, MaxStops)

-----------------------------------------------------------------------------
(* LocationInputField: the address autocomplete.                           *)

\* most fetches issued in one run
MaxFetches == 3

\* a digit string of a whole number, with an optional minus sign, as
\* parseFloat reads it
RECURSIVE DigitsValue(_, _)
DigitsValue(s, acc) ==
    IF s = <<>> THEN acc
    ELSE DigitsValue(Tail(s), (10 * acc) + (Head(s) - 48))

ParseFloat(s) ==
    IF Head(s) = 45 THEN Known(Deg(-DigitsValue(Tail(s), 0)))
    ELSE Known(Deg(DigitsValue(s, 0)))

\* a value of type LocationInput
Location(address, la, ln) == [address |-> address, lat |-> la, lng |-> ln]

\* "denv": what the user types is a prefix of it
City == <<100, 101, 110, 118>>

Typed == {SubSeq(City, 1, n) : n \in 0..Len(City)}

\* the suggestion the service returns for a query: the query followed by
\* ", US", at lat "39" and lon "-104"
Suggestion(q) ==
    [display_name |-> q \o <<44, 32, 85, 83>>,
     lat |-> <<51, 57>>,
     lon |-> <<45, 49, 48, 52>>]

\* the bodies the service may answer a query with
Results(q) == {<<>>, <<Suggestion(q)>>}

\* a fetch that awaits its response
Fetch(id, q) == [id |-> id, query |-> q]

\* the body of the effect on [debouncedAddress, inputMode], up to the await
FetchSuggestions(q, mode) ==
    IF \/ q = <<>>
       \/ Len(q) < 3
       \/ mode # "address"
       \/ q = lastSelectedAddress
    THEN /\ suggestions' = <<>>
         /\ UNCHANGED <<isLoadingSuggestions, inFlight, fetchCount, applied,
                        latestDone>>
    ELSE /\ isLoadingSuggestions' = TRUE
         /\ inFlight' = inFlight \cup {Fetch(fetchCount + 1, q)}
         /\ fetchCount' = fetchCount + 1
         /\ latestDone' = FALSE
         /\ UNCHANGED <<suggestions, applied>>

\* handleAddressChange
HandleAddressChange(a) ==
    /\ inputMode = "address"
    /\ a # value.address
    /\ value' = Location(a, NullCoord, NullCoord)
    /\ showSuggestions' = TRUE
    /\ UNCHANGED <<inputMode, debouncedAddress, lastSelectedAddress,
                   suggestions, isLoadingSuggestions, inFlight, fetchCount,
                   applied, latestDone>>
    /\ UNCHANGED <<decodeVars, propVars, viewVars, formVars, restVars>>

\* useDebounce: 300 ms after the last change the debounced value follows
\* value.address, and the effect that depends on it runs
DebounceFires ==
    /\ debouncedAddress # value.address
    /\ fetchCount < MaxFetches
    /\ debouncedAddress' = value.address
    /\ FetchSuggestions(value.address, inputMode)
    /\ UNCHANGED <<value, inputMode, lastSelectedAddress, showSuggestions>>
    /\ UNCHANGED <<decodeVars, propVars, viewVars, formVars, restVars>>

\* the rest of fetchSuggestions, when the response of fetch f arrives:
\* kind is "ok" (response.ok, body data), "notOk" or "error" (fetch rejects)
Respond(f, kind, data) ==
    /\ f \in inFlight
    /\ inFlight' = inFlight \ {f}
    /\ isLoadingSuggestions' = FALSE
    /\ IF kind = "ok"
       THEN /\ suggestions' = data
            /\ showSuggestions' = (Len(data) > 0)
       ELSE IF kind = "error"
       THEN /\ suggestions' = <<>>
            /\ UNCHANGED showSuggestions
       ELSE UNCHANGED <<suggestions, showSuggestions>>
    /\ applied' = IF kind = "notOk" THEN applied ELSE f.id
    /\ latestDone' = (latestDone \/ (kind # "notOk" /\ f.id = fetchCount))
    /\ UNCHANGED <<value, inputMode, debouncedAddress, lastSelectedAddress,
                   fetchCount>>
    /\ UNCHANGED <<decodeVars, propVars, viewVars, formVars, restVars>>

\* handleSuggestionSelect, on a click in the open list
HandleSuggestionSelect(i) ==
    /\ inputMode = "address"
    /\ showSuggestions
    /\ i \in 1..Len(suggestions)
    /\ lastSelectedAddress' = suggestions[i].display_name
    /\ value' = Location(suggestions[i].display_name,
                         ParseFloat(suggestions[i].lat),
                         ParseFloat(suggestions[i].lon))
    /\ showSuggestions' = FALSE
    /\ suggestions' = <<>>
    /\ UNCHANGED <<inputMode, debouncedAddress, isLoadingSuggestions, inFlight,
                   fetchCount, applied, latestDone>>
    /\ UNCHANGED <<decodeVars, propVars, viewVars, formVars, restVars>>

\* handleTabChange, and the effect that depends on inputMode
HandleTabChange(newValue) ==
    /\ newValue # inputMode
    /\ fetchCount < MaxFetches
    /\ inputMode' = newValue
    /\ value' = IF newValue = "address"
                THEN Location(value.address, NullCoord, NullCoord)
                ELSE Location(<<>>, value.lat, value.lng)
    /\ FetchSuggestions(debouncedAddress, newValue)
    /\ UNCHANGED <<debouncedAddress, lastSelectedAddress, showSuggestions>>
    /\ UNCHANGED <<decodeVars, propVars, viewVars, formVars, restVars>>

\* onClickAway={() => setShowSuggestions(false)}
ClickAway ==
    /\ inputMode = "address"
    /\ showSuggestions
    /\ showSuggestions' = FALSE
    /\ UNCHANGED <<value, inputMode, debouncedAddress, lastSelectedAddress,
                   suggestions, isLoadingSuggestions, inFlight, fetchCount,
                   applied, latestDone>>
    /\ UNCHANGED <<decodeVars, propVars, viewVars, formVars, restVars>>

-----------------------------------------------------------------------------
(* useDebounce: the timeouts behind debouncedAddress.  The effect that     *)
(* LocationInputField runs when debouncedAddress changes is the one of      *)
(* DebounceFires; here the hook is followed timeout by timeout.            *)

\* the delay of useDebounce(value.address || '', 300), in milliseconds
Delay == 300

\* the number of steps in which the delay elapses
TicksPerDelay == 3

\* setTimeout(() => setDebouncedValue(v), delay): the value and the time left
Timeout(v, left) == [value |-> v, left |-> left]

\* mutant: the effect returns no cleanup, the earlier timeouts stay set
RearmedNoCleanup(v) == timers \cup {Timeout(v, Delay)}

\* the effect on [value, delay] after a change of value: the cleanup of its
\* previous run clears that run's timeout, then a new timeout is set
Rearmed(v) == {Timeout(v, Delay)}

\* handleAddressChange, and useDebounce's effect in the render that follows
TypeAddress(a) ==
    /\ inputMode = "address"
    /\ a # value.address
    /\ value' = Location(a, NullCoord, NullCoord)
    /\ showSuggestions' = TRUE
    /\ timers' = Rearmed(a)
    /\ sinceChange' = 0
    /\ UNCHANGED <<inputMode, debouncedAddress, lastSelectedAddress,
                   suggestions, isLoadingSuggestions, inFlight, fetchCount,
                   applied, latestDone>>
    /\ UNCHANGED <<decodeVars, propVars, viewVars, formVars,
                   isLoading, error, tripResult, pending, caught>>

\* time passes, unless a timeout is due: a due timeout runs first
Elapse ==
    LET tick == Delay \div TicksPerDelay
    IN  /\ \A tm \in timers : tm.left > 0
        /\ timers # {} \/ sinceChange < Delay
        /\ timers' = {Timeout(tm.value, IF tm.left > tick
                                        THEN tm.left - tick ELSE 0) :
                          tm \in timers}
        /\ sinceChange' = IF sinceChange + tick < Delay
                          THEN sinceChange + tick ELSE Delay
        /\ UNCHANGED <<decodeVars, propVars, viewVars, autoVars, formVars,
                       isLoading, error, tripResult, pending, caught>>

\* the callback of a timeout that is due: setDebouncedValue(value)
TimeoutRuns(tm) ==
    /\ tm \in timers
    /\ tm.left = 0
    /\ debouncedAddress' = tm.value
    /\ timers' = timers \ {tm}
    /\ UNCHANGED <<value, inputMode, lastSelectedAddress, suggestions,
                   showSuggestions, isLoadingSuggestions, inFlight, fetchCount,
                   applied, latestDone, sinceChange>>
    /\ UNCHANGED <<decodeVars, propVars, viewVars, formVars,
                   isLoading, error, tripResult, pending, caught>>

-----------------------------------------------------------------------------
(* TripForm: the four-step wizard.                                         *)

\* the number of steps, and of the last one
LastStep == 4

\* the largest value of cycleUsedHours
MaxCycleHours == 70

\* const defaultFormData
defaultFormData ==
    [currentLocation |-> Location(<<>>, NullCoord, NullCoord),
     pickupLocation  |-> Location(<<>>, NullCoord, NullCoord),
     dropoffLocation |-> Location(<<>>, NullCoord, NullCoord),
     cycleUsedHours  |-> 0]

\* the field of formData whose LocationInputField step s renders
FieldOf(s) ==
    IF s = 1 THEN "currentLocation"
    ELSE IF s = 2 THEN "pickupLocation"
    ELSE "dropoffLocation"

\* String.prototype.trim on strings whose only white space is the blank
RECURSIVE TrimStart(_)
TrimStart(s) ==
    IF s # <<>> /\ Head(s) = 32 THEN TrimStart(Tail(s)) ELSE s

RECURSIVE TrimEnd(_)
TrimEnd(s) ==
    IF s # <<>> /\ s[Len(s)] = 32 THEN TrimEnd(SubSeq(s, 1, Len(s) - 1)) ELSE s

Trim(s) == TrimEnd(TrimStart(s))

\* isValidLocation
isValidLocation(loc) ==
    LET hasCoords == ~loc.lat.isNull /\ ~loc.lng.isNull
        hasAddress == Trim(loc.address) # <<>>
    IN  hasCoords \/ hasAddress

\* validateStep: whether the step passes
StepPasses(step, fd) ==
    IF step \in 1..3 THEN isValidLocation(fd[FieldOf(step)])
    ELSE IF step = 4
    THEN ~(fd.cycleUsedHours < 0 \/ fd.cycleUsedHours > MaxCycleHours)
    ELSE TRUE

\* validateStep: the message it sets
StepMessage(step) ==
    IF step = 1 THEN "Please enter your current location"
    ELSE IF step = 2 THEN "Please enter the pickup location"
    ELSE IF step = 3 THEN "Please enter the dropoff location"
    ELSE "Please enter valid cycle hours (0-70)"

\* no message: validationError is null
NoError == ""

\* validationError after validateStep(step)
Validated(step, fd) == IF StepPasses(step, fd) THEN NoError ELSE StepMessage(step)

\* no call of onSubmit yet
NoSubmit == [called |-> FALSE, step |-> 0, valid |-> <<>>]

\* what a call onSubmit(fd) at step s is remembered by
SubmitOf(s, fd) ==
    [called |-> TRUE, step |-> s,
     valid |-> [j \in 1..3 |-> isValidLocation(fd[FieldOf(j)])]]

\* handleLocationChange(field)(v)
HandleLocationChange(field, v) ==
    /\ formData' = [formData EXCEPT ![field] = v]
    /\ validationError' = NoError

\* the LocationInputField of the current step calls onChange(v)
OnChange(v) ==
    /\ currentStep \in 1..3
    /\ HandleLocationChange(FieldOf(currentStep), v)
    /\ UNCHANGED <<currentStep, isTransitioning, locating, onSubmitCall>>
    /\ UNCHANGED <<decodeVars, propVars, viewVars, autoVars, restVars>>

\* the location the current step shows
Shown == formData[FieldOf(currentStep)]

\* handleAddressChange in the field of the current step
EditAddress(a) ==
    /\ currentStep \in 1..3
    /\ OnChange(Location(a, NullCoord, NullCoord))

\* handleLatChange in the field of the current step
EditLat(x) ==
    /\ currentStep \in 1..3
    /\ OnChange(Location(<<>>, x, Shown.lng))

\* handleLngChange in the field of the current step
EditLng(x) ==
    /\ currentStep \in 1..3
    /\ OnChange(Location(<<>>, Shown.lat, x))

\* handleSuggestionSelect in the field of the current step
SelectSuggestion(s) ==
    /\ currentStep \in 1..3
    /\ OnChange(Location(s.display_name, ParseFloat(s.lat), ParseFloat(s.lon)))

\* handleTabChange in the field of the current step
ChangeTab(newValue) ==
    /\ currentStep \in 1..3
    /\ OnChange(IF newValue = "address"
                THEN Location(Shown.address, NullCoord, NullCoord)
                ELSE Location(<<>>, Shown.lat, Shown.lng))

\* handleGetLocation, from the button that only the field of step 1 has
\* (showMyLocation; disabled while isLocating): the request is started, its
\* callbacks hold the onChange of the field that was on screen
HandleGetLocation ==
    /\ currentStep = 1
    /\ FieldOf(currentStep) \notin locating
    /\ locating' = locating \cup {FieldOf(currentStep)}
    /\ UNCHANGED <<formData, validationError, currentStep, isTransitioning,
                   onSubmitCall>>
    /\ UNCHANGED <<decodeVars, propVars, viewVars, autoVars, restVars>>

\* the success callback of getCurrentPosition, whenever it comes
PositionFound(field, la, ln) ==
    /\ field \in locating
    /\ locating' = locating \ {field}
    /\ HandleLocationChange(field, Location(<<>>, la, ln))
    /\ UNCHANGED <<currentStep, isTransitioning, onSubmitCall>>
    /\ UNCHANGED <<decodeVars, propVars, viewVars, autoVars, restVars>>

\* the error callback of getCurrentPosition
PositionFailed(field) ==
    /\ field \in locating
    /\ locating' = locating \ {field}
    /\ UNCHANGED <<formData, validationError, currentStep, isTransitioning,
                   onSubmitCall>>
    /\ UNCHANGED <<decodeVars, propVars, viewVars, autoVars, restVars>>

\* mutant: Math.max(0, value) alone
ClampBelowOnly(v) == IF v < 0 THEN 0 ELSE v

\* Math.min(70, Math.max(0, value))
Clamp(v) == IF v < 0 THEN 0 ELSE IF v > MaxCycleHours THEN MaxCycleHours ELSE v

\* handleCycleHoursChange, typed being parseFloat(e.target.value) and hours
\* typed || 0: NaN and 0 are falsy
HandleCycleHoursChange(typed) ==
    /\ currentStep = LastStep
    /\ LET hours == IF typed.nan \/ typed.val = 0 THEN 0 ELSE typed.val
       IN  formData' = [formData EXCEPT !.cycleUsedHours = Clamp(hours)]
    /\ UNCHANGED <<validationError, currentStep, isTransitioning, locating,
                   onSubmitCall>>
    /\ UNCHANGED <<decodeVars, propVars, viewVars, autoVars, restVars>>

\* handleSliderChange: the slider has min 0 and max 70
HandleSliderChange(v) ==
    /\ currentStep = LastStep
    /\ v \in 0..MaxCycleHours
    /\ formData' = [formData EXCEPT !.cycleUsedHours = v]
    /\ UNCHANGED <<validationError, currentStep, isTransitioning, locating,
                   onSubmitCall>>
    /\ UNCHANGED <<decodeVars, propVars, viewVars, autoVars, restVars>>

\* mutant: the step is left without validateStep
handleNextUnchecked ==
    /\ validationError' = NoError
    /\ isTransitioning' = TRUE
    /\ currentStep' = (IF currentStep + 1 < LastStep THEN currentStep + 1
                       ELSE LastStep)

\* mutant: a failed validation shows the message of the first step
handleNextFirstMessage ==
    /\ validationError' = (IF StepPasses(currentStep, formData)
                           THEN NoError ELSE StepMessage(1))
    /\ IF StepPasses(currentStep, formData)
       THEN /\ isTransitioning' = TRUE
            /\ currentStep' = (IF currentStep + 1 < LastStep
                               THEN currentStep + 1 ELSE LastStep)
       ELSE UNCHANGED <<isTransitioning, currentStep>>

\* the body of handleNext
handleNext ==
    /\ validationError' = Validated(currentStep, formData)
    /\ IF StepPasses(currentStep, formData)
       THEN /\ isTransitioning' = TRUE
            /\ currentStep' = (IF currentStep + 1 < LastStep
                               THEN currentStep + 1 ELSE LastStep)
       ELSE UNCHANGED <<isTransitioning, currentStep>>

\* a click on Continue, which calls handleNext (the button is there before
\* the last step, and is disabled while isTransitioning)
Continue ==
    /\ currentStep < LastStep
    /\ ~isTransitioning
    /\ handleNext
    /\ UNCHANGED <<formData, locating, onSubmitCall>>
    /\ UNCHANGED <<decodeVars, propVars, viewVars, autoVars, restVars>>

\* setTimeout(() => setIsTransitioning(false), 500)
TransitionEnds ==
    /\ isTransitioning
    /\ isTransitioning' = FALSE
    /\ UNCHANGED <<formData, validationError, currentStep, locating,
                   onSubmitCall>>
    /\ UNCHANGED <<decodeVars, propVars, viewVars, autoVars, restVars>>

\* handlePrevious, from the Back button (disabled at step 1)
HandlePrevious ==
    /\ currentStep # 1
    /\ currentStep' = (IF currentStep - 1 > 1 THEN currentStep - 1 ELSE 1)
    /\ validationError' = NoError
    /\ UNCHANGED <<formData, isTransitioning, locating, onSubmitCall>>
    /\ UNCHANGED <<decodeVars, propVars, viewVars, autoVars, restVars>>

\* handleSubmit, on the form's submit event (the submit button is there at
\* the last step only, and is disabled while isTransitioning)
HandleSubmit ==
    /\ IF currentStep < LastStep
       THEN /\ handleNext
            /\ UNCHANGED onSubmitCall
       ELSE /\ ~isTransitioning
            /\ validationError' = Validated(currentStep, formData)
            /\ onSubmitCall' = IF StepPasses(currentStep, formData)
                               THEN SubmitOf(currentStep, formData)
                               ELSE onSubmitCall
            /\ UNCHANGED <<currentStep, isTransitioning>>
    /\ UNCHANGED <<formData, locating>>
    /\ UNCHANGED <<decodeVars, propVars, viewVars, autoVars, restVars>>

\* what the user types into an address field: nothing, a blank, a letter
Addresses == {<<>>, <<32>>, <<100>>}

\* what the user leaves in the latitude field: nothing, or a number
LatEntries == {NullCoord, Known(Deg(39))}

\* what the user leaves in the longitude field: nothing, or a number
LngEntries == {NullCoord, Known(Deg(-104))}

\* what parseFloat makes of the hours field: NaN for text that is no number,
\* numbers below, inside and above 0..70
HoursTyped == {NaN, Num(-5), Num(35), Num(100)}

\* where the slider is left
HoursSlid == {0, MaxCycleHours}

-----------------------------------------------------------------------------------------------------------------------------------------------------
(* The API client (services/api.ts) and App.                               *)

\* the messages of App.handleSubmit, and the text its catch block looks for
Messages ==
    [
     \* the message for code ECONNABORTED:
     \* The request took too long to complete. Please try again.
     timeout |->
        <<84, 104, 101, 32, 114, 101, 113, 117, 101, 115, 116, 32, 116, 111,
          111, 107, 32, 116, 111, 111, 32, 108, 111, 110, 103, 32, 116, 111,
          32, 99, 111, 109, 112, 108, 101, 116, 101, 46, 32, 80, 108, 101, 97,
          115, 101, 32, 116, 114, 121, 32, 97, 103, 97, 105, 110, 46>>,
     \* the message for an error about the route:
     \* Unable to calculate a driving route between these locations. This may
     \* happen if:\n(U+2022) One or more locations are too remote or
     \* inaccessible by road\n(U+2022) Locations are in areas without road
     \* connections (e.g., remote Alaska, islands)\n(U+2022) The addresses could
     \* not be found\n\nPlease verify your locations and try again with
     \* accessible road addresses.
     route |->
        <<85, 110, 97, 98, 108, 101, 32, 116, 111, 32, 99, 97, 108, 99, 117,
          108, 97, 116, 101, 32, 97, 32, 100, 114, 105, 118, 105, 110, 103,
          32, 114, 111, 117, 116, 101, 32, 98, 101, 116, 119, 101, 101, 110,
          32, 116, 104, 101, 115, 101, 32, 108, 111, 99, 97, 116, 105, 111,
          110, 115, 46, 32, 84, 104, 105, 115, 32, 109, 97, 121, 32, 104, 97,
          112, 112, 101, 110, 32, 105, 102, 58, 10, 8226, 32, 79, 110, 101,
          32, 111, 114, 32, 109, 111, 114, 101, 32, 108, 111, 99, 97, 116,
          105, 111, 110, 115, 32, 97, 114, 101, 32, 116, 111, 111, 32, 114,
          101, 109, 111, 116, 101, 32, 111, 114, 32, 105, 110, 97, 99, 99,
          101, 115, 115, 105, 98, 108, 101, 32, 98, 121, 32, 114, 111, 97,
          100, 10, 8226, 32, 76, 111, 99, 97, 116, 105, 111, 110, 115, 32, 97,
          114, 101, 32, 105, 110, 32, 97, 114, 101, 97, 115, 32, 119, 105,
          116, 104, 111, 117, 116, 32, 114, 111, 97, 100, 32, 99, 111, 110,
          110, 101, 99, 116, 105, 111, 110, 115, 32, 40, 101, 46, 103, 46, 44,
          32, 114, 101, 109, 111, 116, 101, 32, 65, 108, 97, 115, 107, 97, 44,
          32, 105, 115, 108, 97, 110, 100, 115, 41, 10, 8226, 32, 84, 104,
          101, 32, 97, 100, 100, 114, 101, 115, 115, 101, 115, 32, 99, 111,
          117, 108, 100, 32, 110, 111, 116, 32, 98, 101, 32, 102, 111, 117,
          110, 100, 10, 10, 80, 108, 101, 97, 115, 101, 32, 118, 101, 114,
          105, 102, 121, 32, 121, 111, 117, 114, 32, 108, 111, 99, 97, 116,
          105, 111, 110, 115, 32, 97, 110, 100, 32, 116, 114, 121, 32, 97,
          103, 97, 105, 110, 32, 119, 105, 116, 104, 32, 97, 99, 99, 101, 115,
          115, 105, 98, 108, 101, 32, 114, 111, 97, 100, 32, 97, 100, 100,
          114, 101, 115, 115, 101, 115, 46>>,
     \* the message when the error has none:
     \* An error occurred while planning your trip. Please try again.
     fallback |->
        <<65, 110, 32, 101, 114, 114, 111, 114, 32, 111, 99, 99, 117, 114,
          114, 101, 100, 32, 119, 104, 105, 108, 101, 32, 112, 108, 97, 110,
          110, 105, 110, 103, 32, 121, 111, 117, 114, 32, 116, 114, 105, 112,
          46, 32, 80, 108, 101, 97, 115, 101, 32, 116, 114, 121, 32, 97, 103,
          97, 105, 110, 46>>,
     \* the message of the error thrown on a falsy result:
     \* Received empty response from server
     empty |->
        <<82, 101, 99, 101, 105, 118, 101, 100, 32, 101, 109, 112, 116, 121,
          32, 114, 101, 115, 112, 111, 110, 115, 101, 32, 102, 114, 111, 109,
          32, 115, 101, 114, 118, 101, 114>>,
     \* the text err.message is searched for:
     \* Unable to calculate route
     needle |->
        <<85, 110, 97, 98, 108, 101, 32, 116, 111, 32, 99, 97, 108, 99, 117,
          108, 97, 116, 101, 32, 114, 111, 117, 116, 101>>]

\* messages a backend sends in the body of a failed response
Backend ==
    [
     \* backend: an error field:
     \* Invalid cycle hours
     invalid |->
        <<73, 110, 118, 97, 108, 105, 100, 32, 99, 121, 99, 108, 101, 32, 104,
          111, 117, 114, 115>>,
     \* backend: an error field about the route:
     \* Unable to calculate route: no road found
     noRoute |->
        <<85, 110, 97, 98, 108, 101, 32, 116, 111, 32, 99, 97, 108, 99, 117,
          108, 97, 116, 101, 32, 114, 111, 117, 116, 101, 58, 32, 110, 111,
          32, 114, 111, 97, 100, 32, 102, 111, 117, 110, 100>>,
     \* backend: a detail field:
     \* Not found.
     detail |->
        <<78, 111, 116, 32, 102, 111, 117, 110, 100, 46>>]

\* String.prototype.includes
Includes(s, needle) ==
    \E i \in 0..(Len(s) - Len(needle)) : SubSeq(s, i + 1, i + Len(needle)) = needle

\* tripResult: null
NoResult == [isNull |-> TRUE, tripId |-> 0]

\* error.response of an axios error, with its status and the fields error and
\* detail of its body, each a string or missing; present is FALSE when no
\* response came
Response(present, status, e, dt) ==
    [present |-> present, status |-> status, data |-> [error |-> e, detail |-> dt]]

\* an error as the interceptor receives it and as handleSubmit catches it;
\* code "" stands for no code, status 0 for no status
Err(code, message, response, isApiError, status) ==
    [code |-> code, message |-> message, response |-> response,
     isApiError |-> isApiError, status |-> status]

\* mutant: detail is looked at before error
InterceptorDetailFirst(e) ==
    LET apiError(message) ==
            Err("", message, Response(FALSE, 0, Null, Null), TRUE, e.response.status)
    IN  IF e.response.present /\ ~Falsy(e.response.data.detail)
        THEN apiError(e.response.data.detail.chars)
        ELSE IF e.response.present /\ ~Falsy(e.response.data.error)
        THEN apiError(e.response.data.error.chars)
        ELSE e

\* the response error interceptor: the error its promise is rejected with;
\* apiError is new Error(message) with isApiError = true and
\* status = error.response.status
Interceptor(e) ==
    LET apiError(message) ==
            Err("", message, Response(FALSE, 0, Null, Null), TRUE, e.response.status)
    IN  IF e.response.present /\ ~Falsy(e.response.data.error)
        THEN apiError(e.response.data.error.chars)
        ELSE IF e.response.present /\ ~Falsy(e.response.data.detail)
        THEN apiError(e.response.data.detail.chars)
        ELSE e

\* mutant: a structured error is shown verbatim before the route is looked for
CaughtMessageApiFirst(err) ==
    IF err.code = "ECONNABORTED" THEN Messages.timeout
    ELSE IF err.isApiError THEN err.message
    ELSE IF Includes(err.message, Messages.needle) THEN Messages.route
    ELSE IF err.message # <<>> THEN err.message
    ELSE Messages.fallback

\* the catch block of handleSubmit: the argument of setError
CaughtMessage(err) ==
    IF err.code = "ECONNABORTED" THEN Messages.timeout
    ELSE IF Includes(err.message, Messages.needle) THEN Messages.route
    ELSE IF err.isApiError THEN err.message
    ELSE IF err.message # <<>> THEN err.message
    ELSE Messages.fallback

\* mutant: an empty response is taken for a result
ThrowsOnFailureOnly(o) == ~o.ok

\* whether the try block of handleSubmit throws when the request settles as
\* o: the request failed, or its result is falsy
Throws(o) == ~o.ok \/ o.data.isNull

\* isLoading ? loading view : tripResult ? <TripResults> : <TripForm>
ShowsForm(loading, res) == ~loading /\ res.isNull

\* mutant: the step survives the unmount
MountedAtLastStep ==
    [formData |-> defaultFormData, validationError |-> NoError,
     currentStep |-> LastStep, isTransitioning |-> FALSE]

\* the state TripForm is created with
Mounted ==
    [formData |-> defaultFormData, validationError |-> NoError,
     currentStep |-> 1, isTransitioning |-> FALSE]

\* TripForm's state over a render of App: kept while the form stays rendered,
\* created anew otherwise
FormAcross(before, after) ==
    IF before /\ after
    THEN UNCHANGED <<formData, validationError, currentStep, isTransitioning,
                     locating>>
    ELSE /\ formData' = Mounted.formData
         /\ validationError' = Mounted.validationError
         /\ currentStep' = Mounted.currentStep
         /\ isTransitioning' = Mounted.isTransitioning
         /\ locating' = {}

\* mutant: the submission does not mark the request as loading
SubmittingUnmarked == [isLoading |-> FALSE, error |-> Null]

\* setIsLoading(true); setError(null)
Submitting == [isLoading |-> TRUE, error |-> Null]

\* TripForm.handleSubmit at the last step (the submit button is disabled
\* while isLoading or isTransitioning): when the step validates it calls
\* App.handleSubmit, which does setIsLoading(true), setError(null) and sends
\* the request { current, pickup, dropoff, cycleUsedHours }
SubmitTrip ==
    /\ ShowsForm(isLoading, tripResult)
    /\ currentStep = LastStep
    /\ ~(isLoading \/ isTransitioning)
    /\ IF StepPasses(currentStep, formData)
       THEN /\ onSubmitCall' = SubmitOf(currentStep, formData)
            /\ isLoading' = Submitting.isLoading
            /\ error' = Submitting.error
            /\ pending' = Append(pending,
                                 [current |-> formData.currentLocation,
                                  pickup |-> formData.pickupLocation,
                                  dropoff |-> formData.dropoffLocation,
                                  cycleUsedHours |-> formData.cycleUsedHours])
            /\ FormAcross(TRUE, ShowsForm(Submitting.isLoading, tripResult))
       ELSE /\ validationError' = Validated(currentStep, formData)
            /\ UNCHANGED <<formData, currentStep, isTransitioning, locating>>
            /\ UNCHANGED <<onSubmitCall, isLoading, error, pending>>
    /\ UNCHANGED <<tripResult, caught>>
    /\ UNCHANGED <<decodeVars, propVars, viewVars, autoVars, timers, sinceChange>>

\* the rest of App.handleSubmit, when the i-th pending request settles as o:
\* err is what the catch block receives, the rejection of the interceptor or
\* new Error('Received empty response from server')
Settle(i, o) ==
    /\ i \in 1..Len(pending)
    /\ pending' = SubSeq(pending, 1, i - 1) \o SubSeq(pending, i + 1, Len(pending))
    /\ IF Throws(o)
       THEN LET err == IF o.ok
                       THEN Err("", Messages.empty, Response(FALSE, 0, Null, Null),
                                FALSE, 0)
                       ELSE Interceptor(o.error)
            IN  /\ caught' = <<err>>
                /\ error' = Str(CaughtMessage(err))
                /\ UNCHANGED tripResult
       ELSE /\ tripResult' = o.data
            /\ UNCHANGED <<error, caught>>
    /\ isLoading' = FALSE
    /\ FormAcross(ShowsForm(isLoading, tripResult),
                  ShowsForm(FALSE, IF Throws(o) THEN tripResult ELSE o.data))
    /\ UNCHANGED onSubmitCall
    /\ UNCHANGED <<decodeVars, propVars, viewVars, autoVars, timers, sinceChange>>

\* handleBack, from TripResults, which is shown when a result is there and
\* nothing is loading
HandleBack ==
    /\ ~isLoading
    /\ ~tripResult.isNull
    /\ tripResult' = NoResult
    /\ error' = Null
    /\ FormAcross(FALSE, ShowsForm(isLoading, NoResult))
    /\ UNCHANGED <<isLoading, pending, caught, onSubmitCall>>
    /\ UNCHANGED <<decodeVars, propVars, viewVars, autoVars, timers, sinceChange>>

\* the errors axios fails with: a timeout ("timeout of 60000ms exceeded"), no
\* response ("Network Error"), an error without code and message, and a
\* response outside 2xx ("Request failed with status code 400") with status
\* 400 or 500 and a body whose error is missing, empty or a message and
\* whose detail is missing or a message
AxiosErrors ==
    {Err("ECONNABORTED",
         <<116, 105, 109, 101, 111, 117, 116, 32, 111, 102, 32, 54, 48, 48, 48,
         48, 109, 115, 32, 101, 120, 99, 101, 101, 100, 101, 100>>,
         Response(FALSE, 0, Null, Null), FALSE, 0),
     Err("ERR_NETWORK",
         <<78, 101, 116, 119, 111, 114, 107, 32, 69, 114, 114, 111, 114>>,
         Response(FALSE, 0, Null, Null), FALSE, 0),
     Err("", <<>>, Response(FALSE, 0, Null, Null), FALSE, 0)}
        \cup {Err("ERR_BAD_REQUEST",
                  <<82, 101, 113, 117, 101, 115, 116, 32, 102, 97, 105, 108, 101, 100,
                  32, 119, 105, 116, 104, 32, 115, 116, 97, 116, 117, 115, 32, 99,
                  111, 100, 101, 32, 52, 48, 48>>,
                  Response(TRUE, st, e, dt), FALSE, 0) :
                  st \in {400, 500},
                  e \in {Null, Str(<<>>), Str(Backend.invalid), Str(Backend.noRoute)},
                  dt \in {Null, Str(Backend.detail)}}

\* the ways a request settles: axios resolves and planTrip returns
\* response.data, empty or a PlanTripResponse, or it fails with an error,
\* which goes through the interceptor
Outcomes ==
    {[ok |-> TRUE, data |-> d, error |-> Err("", <<>>, Response(FALSE, 0, Null, Null), FALSE, 0)] :
         d \in {NoResult, [isNull |-> FALSE, tripId |-> 1]}}
        \cup {[ok |-> FALSE, data |-> NoResult, error |-> e] : e \in AxiosErrors}

-----------------------------------------------------------------------------
(* Specifications.                                                         *)

Init ==
    /\ polyline = Null
    /\ routeCoordinates = <<>>
    /\ caller = "none"
    /\ outcome = "none"
    /\ pc = "idle"
    /\ encoded = <<>>
    /\ points = <<>>
    /\ index = 0
    /\ lat = 0
    /\ lng = 0
    /\ shift = 0
    /\ result = 0
    /\ byte = NaN
    /\ start = 0
    /\ readLog = <<>>
    /\ firstInput = <<>>
    /\ firstOutput = <<>>
    /\ source = NoSource
    /\ waypoints = <<>>
    /\ stops = <<>>
    /\ view = "none"
    /\ bounds = LatLngBounds(<<>>)
    /\ fitted = LatLngBounds(<<>>)
    /\ positions = <<>>
    /\ waypointMarkers = <<>>
    /\ stopMarkers = <<>>
    /\ value = Location(<<>>, NullCoord, NullCoord)
    /\ inputMode = "address"
    /\ debouncedAddress = <<>>
    /\ lastSelectedAddress = <<>>
    /\ suggestions = <<>>
    /\ showSuggestions = FALSE
    /\ isLoadingSuggestions = FALSE
    /\ inFlight = {}
    /\ fetchCount = 0
    /\ applied = 0
    /\ latestDone = FALSE
    /\ formData = defaultFormData
    /\ validationError = NoError
    /\ currentStep = 1
    /\ isTransitioning = FALSE
    /\ locating = {}
    /\ onSubmitCall = NoSubmit
    /\ isLoading = FALSE
    /\ error = Null
    /\ tripResult = NoResult
    /\ pending = <<>>
    /\ caught = <<>>
    /\ timers = {Timeout(<<>>, Delay)}
    /\ sinceChange = 0

\* nothing has been entered yet
NoEntryYet == pc = "idle" /\ outcome = "none"

\* one entry, from either caller, run to completion
Next ==
    \/ NoEntryYet /\ \E s \in Inputs : CallDecode(s)
    \/ NoEntryYet /\ \E cs \in CoordSeqs : CallEncoded(cs)
    \/ NoEntryYet /\ \E p \in Polylines : RenderRouteMap(p, <<>>, <<>>)
    \/ DecodeStep

Spec == Init /\ [][Next]_vars

\* a call runs synchronously: once entered, its steps are taken until it returns
FairSpec == Spec /\ WF_vars(DecodeStep)

\* the strings of repeated calls
CallInputs == StringsUpTo(CallLen)

\* any number of calls of decodePolyline, one after the other
NextCalls ==
    \/ pc = "idle" /\ \E s \in CallInputs : CallDecode(s)
    \/ DecodeStep

SpecCalls == Init /\ [][NextCalls]_vars

\* one render of RouteMap: a route with a polyline and waypoints, or a trip
\* with waypoints and stops
NextMap ==
    \/ NoEntryYet /\ \E p \in MapPolylines, ws \in WaypointSeqs :
                         RenderRouteMap(p, ws, <<>>)
    \/ NoEntryYet /\ \E ws \in WaypointSeqs, ss \in StopSeqs :
                         RenderRouteMap(Null, ws, ss)
    \/ DecodeStep
    \/ BoundsMemo
    \/ ReturnElements
    \/ MapBoundsSetter

SpecMap == Init /\ [][NextMap]_vars

\* one LocationInputField in use: typing, the debounce, responses in any
\* order, a click on a suggestion, a change of tab, a click elsewhere
NextAuto ==
    \/ \E a \in Typed : HandleAddressChange(a)
    \/ DebounceFires
    \/ \E f \in inFlight, kind \in {"ok", "notOk", "error"} :
           \E data \in Results(f.query) : Respond(f, kind, data)
    \/ \E i \in 1..Len(suggestions) : HandleSuggestionSelect(i)
    \/ \E newValue \in {"address", "coords"} : HandleTabChange(newValue)
    \/ ClickAway

SpecAuto == Init /\ [][NextAuto]_vars

\* the wizard in use: edits of the field on screen, geolocation, the hours,
\* Continue, Back, submit
NextForm ==
    \/ \E a \in Addresses : EditAddress(a)
    \/ \E x \in LatEntries : EditLat(x)
    \/ \E x \in LngEntries : EditLng(x)
    \/ SelectSuggestion(Suggestion(City))
    \/ \E newValue \in {"address", "coords"} : ChangeTab(newValue)
    \/ HandleGetLocation
    \/ \E field \in locating :
           PositionFound(field, Known(Deg(39)), Known(Deg(-104)))
    \/ \E field \in locating : PositionFailed(field)
    \/ \E typed \in HoursTyped : HandleCycleHoursChange(typed)
    \/ \E v \in HoursSlid : HandleSliderChange(v)
    \/ Continue
    \/ TransitionEnds
    \/ HandlePrevious
    \/ HandleSubmit

SpecForm == Init /\ [][NextForm]_vars

\* the hook in use: the address is typed, time passes, timeouts run
NextDebounce ==
    \/ \E a \in Typed : TypeAddress(a)
    \/ Elapse
    \/ \E tm \in timers : TimeoutRuns(tm)

SpecDebounce == Init /\ [][NextDebounce]_vars

\* time passes, and a timeout that is due runs
FairDebounce ==
    /\ SpecDebounce
    /\ WF_vars(Elapse)
    /\ WF_vars(\E tm \in timers : TimeoutRuns(tm))

\* App in use: while the form is shown it is filled in with addresses and hours and stepped
\* through, the trip is submitted, the request settles, the results are left
NextApp ==
    \/ ShowsForm(isLoading, tripResult) /\ \E a \in Addresses : EditAddress(a)
    \/ ShowsForm(isLoading, tripResult) /\ \E v \in HoursSlid : HandleSliderChange(v)
    \/ ShowsForm(isLoading, tripResult) /\ Continue
    \/ ShowsForm(isLoading, tripResult) /\ TransitionEnds
    \/ ShowsForm(isLoading, tripResult) /\ HandlePrevious
    \/ SubmitTrip
    \/ \E i \in 1..Len(pending), o \in Outcomes : Settle(i, o)
    \/ HandleBack

SpecApp == Init /\ [][NextApp]_vars

\* the request settles: the client has a timeout of 60 s
FairApp == SpecApp /\ WF_vars(\E i \in 1..Len(pending), o \in Outcomes : Settle(i, o))

-----------------------------------------------------------------------------
(* Claims.                                                                 *)

\* the documented result for Reference: (38.5, -120.2), (40.7, -120.95),
\* (43.252, -126.453) as fractions in lowest terms
ReferencePoints ==
    << <<[num |-> 77, den |-> 2], [num |-> -601, den |-> 5]>>,
       <<[num |-> 407, den |-> 10], [num |-> -2419, den |-> 20]>>,
       <<[num |-> 10813, den |-> 250], [num |-> -126453, den |-> 1000]>> >>

\* C1: decodePolyline of the reference encoding returns exactly the three
\* documented points, in order.
C1_ReferenceDecodes ==
    (pc = "return" /\ encoded = Reference) => points = ReferencePoints

C1_Witness == pc = "return" /\ encoded = Reference /\ Len(points) = 3

\* C2: a string the encoder produced from a sequence of coordinates that are
\* multiples of 1e-5 decodes to that sequence, same length and order.
C2_RoundTrip ==
    (pc = "return" /\ source.given) => points = source.coords

C2_Witness ==
    /\ pc = "return"
    /\ source.given
    /\ Len(source.coords) = MaxPts
    /\ source.coords[1][1].num = -90
    /\ source.coords[2][2].num = 180
    /\ points = source.coords

\* charCode - 63
ByteOf(c) == c - 63

\* the low 5 bits of charCode - 63 (of its two's complement when negative)
Low5(c) == (c - 63) % 32

\* the final character carries the continuation bit
EndsMidValue(s) == s # <<>> /\ ByteOf(s[Len(s)]) >= 32

\* some character lies below the offset 63
HasCharBelow63(s) == \E i \in 1..Len(s) : s[i] < 63

\* C3: a string that ends in the middle of a value makes decode fail with
\* MalformedGeometry: the call never reaches its return statement with
\* coordinates for such an input.
C3_TruncatedNeverReturns == ~(pc = "return" /\ EndsMidValue(encoded))

\* C4: a string holding a character below code 63 makes decode fail with
\* MalformedGeometry: the call never reaches its return statement with
\* coordinates for such an input.
C4_BelowOffsetNeverReturns == ~(pc = "return" /\ HasCharBelow63(encoded))

\* the positions read are 0, 1, 2, ... in this order, none twice
ReadsInOrder == \A i \in 1..Len(readLog) : readLog[i] = i - 1

C5_CursorInv ==
    /\ pc # "idle" => (ReadsInOrder /\ index = Len(readLog))
    /\ pc = "return" =>
          /\ index >= Len(encoded)
          /\ \A q \in 0..(Len(encoded) - 1) :
                Cardinality({i \in 1..Len(readLog) : readLog[i] = q}) = 1

C5_CursorStep ==
    /\ (pc # "idle" /\ readLog' # readLog) =>
          (index' = index + 1 /\ readLog' = Append(readLog, index))
    /\ (pc \notin {"idle", "return"} /\ index' # index) => index' > index

\* C5: for every finite input, the empty string included, the call returns;
\* the cursor only moves forward, by one with every read, no position is read
\* twice, and at the return every character has been read exactly once.
C5_ForwardCursorTerminates ==
    /\ []C5_CursorInv
    /\ [][C5_CursorStep]_vars
    /\ (pc # "idle") ~> (pc = "idle")

C5_Witness == pc = "return" /\ Len(encoded) = MaxLen /\ index > Len(encoded)

\* the characters of the value being read or just read
ValueChars == SubSeq(encoded, start + 1, index)

\* the value's reads all fell inside the string
InString == index <= Len(encoded)

RECURSIVE ChunkSum(_)
ChunkSum(cs) ==
    IF cs = <<>> THEN 0 ELSE Low5(Head(cs)) + 32 * ChunkSum(Tail(cs))

\* every character but the last has byte >= 0x20, the last has byte < 0x20
ContinuationShape(cs) ==
    \A i \in 1..Len(cs) : (ByteOf(cs[i]) >= 32) <=> (i < Len(cs))

\* r = sum over i of Low5(cs[i + 1]) * 32^i, stated on the base-32 digits of
\* r: r has 32 bits, so the sum equals it only if r >= 0, the digits agree,
\* and every chunk from 32^7 on is 0
EqualsChunkSum(r, cs) ==
    /\ r >= 0
    /\ \A i \in 0..6 :
          (r \div (32 ^ i)) % 32 = (IF i < Len(cs) THEN Low5(cs[i + 1]) ELSE 0)
    /\ \A i \in 7..(Len(cs) - 1) : Low5(cs[i + 1]) = 0

\* C6 as stated: a value of k characters, for any k, yields the sum of its
\* chunks.
C6_AnyLengthSum ==
    (pc \in {"latend", "lngend"} /\ InString) =>
        /\ ContinuationShape(ValueChars)
        /\ EqualsChunkSum(result, ValueChars)

\* C6 (amended): reading a value continues exactly while byte >= 0x20, and a
\* value of k <= 6 characters yields result = sum of (byte_i & 0x1F) * 2^(5i).
C6_ChunkSumUpTo6 ==
    /\ (pc \in {"latdo", "lngdo"} /\ InString) =>
          \A i \in 1..Len(ValueChars) : ByteOf(ValueChars[i]) >= 32
    /\ (pc \in {"latend", "lngend"} /\ InString) =>
          /\ ContinuationShape(ValueChars)
          /\ Len(ValueChars) <= 6 =>
                (result = ChunkSum(ValueChars)
                    /\ EqualsChunkSum(result, ValueChars))

C6_Witness ==
    /\ pc = "lngend"
    /\ InString
    /\ Len(ValueChars) = 6
    /\ result = ChunkSum(ValueChars)
    /\ result > 32 ^ 5

\* the signed delta of an accumulated result, on the integers
Delta(r) == IF r % 2 = 1 THEN -(r \div 2) - 1 ELSE r \div 2

\* C7: an odd result gives the delta -(result >> 1) - 1, an even one
\* result >> 1, for the latitude and for the longitude alike.
C7_ZigZagDelta ==
    [][/\ pc = "latend" => lat' = lat + Delta(result)
       /\ pc = "lngend" => lng' = lng + Delta(result)]_vars

C7_Witness == pc = "lngend" /\ result % 2 = 1 /\ lat < 0

\* the values of a string: maximal runs of continuation characters, each
\* closed by a terminator
RECURSIVE SplitValues(_, _)
SplitValues(s, cur) ==
    IF s = <<>> THEN (IF cur = <<>> THEN <<>> ELSE <<cur>>)
    ELSE IF ByteOf(Head(s)) >= 32
         THEN SplitValues(Tail(s), Append(cur, Head(s)))
         ELSE <<Append(cur, Head(s))>> \o SplitValues(Tail(s), <<>>)

ValuesOf(s) == SplitValues(s, <<>>)

\* characters of the encoding's range, the last one a terminator, an even
\* number of values, none longer than the 6 characters a delta can take
WellFormed(s) ==
    /\ \A i \in 1..Len(s) : s[i] \in 63..126
    /\ s = <<>> \/ ByteOf(s[Len(s)]) < 32
    /\ Len(ValuesOf(s)) % 2 = 0
    /\ \A i \in 1..Len(ValuesOf(s)) : Len(ValuesOf(s)[i]) <= 6

\* the points of a list of values: running sums of the deltas, latitude first
RECURSIVE PointsFrom(_, _, _)
PointsFrom(vs, la, ln) ==
    IF Len(vs) < 2 THEN <<>>
    ELSE LET la2 == la + Delta(ChunkSum(vs[1]))
             ln2 == ln + Delta(ChunkSum(vs[2]))
         IN  <<Point(la2, ln2)>> \o PointsFrom(SubSeq(vs, 3, Len(vs)), la2, ln2)

\* C8: a well-formed input of 2n values gives n points, the k-th being the
\* sums of the first k latitude and the first k longitude deltas over 1e5.
C8_CumulativePoints ==
    (pc = "return" /\ WellFormed(encoded)) =>
        /\ 2 * Len(points) = Len(ValuesOf(encoded))
        /\ points = PointsFrom(ValuesOf(encoded), 0, 0)

C8_Witness ==
    /\ pc = "return"
    /\ WellFormed(encoded)
    /\ Len(points) = 3
    /\ points[1][1].num * points[2][1].den < points[2][1].num * points[1][1].den

\* C9: an empty or null route.polyline gives empty route coordinates and
\* raises nothing; decodePolyline("") returns an empty array and never enters
\* its loop.
C9_EmptyPolyline ==
    /\ (caller = "RouteMap" /\ (polyline.isNull \/ polyline.chars = <<>>)) =>
          (pc = "idle" /\ outcome = "returned" /\ routeCoordinates = <<>>)
    /\ (caller = "direct" /\ encoded = <<>> /\ pc # "idle") =>
          (pc \in {"while", "return"} /\ points = <<>> /\ readLog = <<>>)
    /\ (caller = "direct" /\ encoded = <<>> /\ outcome = "returned") =>
          points = <<>>

C9_Witness ==
    /\ caller = "RouteMap"
    /\ polyline.isNull
    /\ outcome = "returned"
    /\ routeCoordinates = <<>>

\* C10: a later call with the argument of the first call returns the same
\* array, whatever was decoded in between, and the steps of a call change
\* nothing but the call's own locals.
C10_Deterministic ==
    /\ []((pc = "return" /\ outcome = "returned" /\ encoded = firstInput) =>
             points = firstOutput)
    /\ [][pc \notin {"idle", "return"} =>
             UNCHANGED <<polyline, routeCoordinates, caller, outcome, encoded,
                         firstInput, firstOutput>>]_vars

C10_Witness ==
    /\ pc = "return"
    /\ outcome = "returned"
    /\ encoded = firstInput
    /\ Len(points) = 1
    /\ points = firstOutput

\* the bounds memo has been computed in this render
BoundsComputed == view \in {"bounds", "elements", "done"}

\* the elements of this render have been returned
ElementsReturned == view \in {"elements", "done"}

\* point p lies within the rectangle b, limits included
Inside(p, b) ==
    /\ LessEq(b.southWest[1], p[1]) /\ LessEq(p[1], b.northEast[1])
    /\ LessEq(b.southWest[2], p[2]) /\ LessEq(p[2], b.northEast[2])

\* there is a point to bound: a decoded route coordinate or a waypoint
SomePoint == routeCoordinates # <<>> \/ waypoints # <<>>

\* C11: when there is at least one decoded route coordinate or waypoint, the
\* bounds contain every one of them: south <= lat <= north and
\* west <= lng <= east.
C11_BoundsContainPoints ==
    (BoundsComputed /\ SomePoint) =>
        /\ \A i \in 1..Len(routeCoordinates) :
              Inside(routeCoordinates[i], bounds)
        /\ \A i \in 1..Len(waypoints) :
              Inside(<<waypoints[i].lat, waypoints[i].lng>>, bounds)

C11_Witness ==
    /\ view = "done"
    /\ Len(routeCoordinates) = 3
    /\ Len(waypoints) = 2
    /\ bounds.southWest[1] = Deg(-34)
    /\ bounds.northEast[2] = Deg(151)
    /\ bounds.northEast[1] = routeCoordinates[3][1]
    /\ bounds.southWest[2] = routeCoordinates[3][2]

\* C12: with no decoded route point and no waypoint the bounds are the fixed
\* rectangle with corners (25, -125) and (49, -66); the bounds are always
\* valid, and what fitBounds is handed is these valid bounds.
C12_DefaultBounds ==
    /\ (BoundsComputed /\ ~SomePoint) =>
          bounds = [valid |-> TRUE,
                    southWest |-> <<Deg(25), Deg(-125)>>,
                    northEast |-> <<Deg(49), Deg(-66)>>]
    /\ BoundsComputed => bounds.valid
    /\ view = "done" => (fitted.valid /\ fitted = bounds)

C12_Witness ==
    /\ view = "done"
    /\ ~SomePoint
    /\ fitted.valid
    /\ fitted.southWest = <<Deg(25), Deg(-125)>>
    /\ fitted.northEast = <<Deg(49), Deg(-66)>>

\* the latitudes (k = 1) or longitudes (k = 2) of all points of this render
Coords(k) ==
    {routeCoordinates[i][k] : i \in 1..Len(routeCoordinates)}
        \cup {(IF k = 1 THEN waypoints[i].lat ELSE waypoints[i].lng) :
                  i \in 1..Len(waypoints)}

\* C13: when there is a point, each of the four limits is the minimum or the
\* maximum of its axis over the points, so it is attained by some point; one
\* waypoint at (40, -105) and no route point give min = max = (40, -105).
C13_SmallestRectangle ==
    /\ (BoundsComputed /\ SomePoint) =>
          \A k \in {1, 2} :
              /\ bounds.southWest[k] \in Coords(k)
              /\ bounds.northEast[k] \in Coords(k)
              /\ \A c \in Coords(k) :
                    LessEq(bounds.southWest[k], c) /\ LessEq(c, bounds.northEast[k])
    /\ (BoundsComputed /\ routeCoordinates = <<>> /\ Len(waypoints) = 1
            /\ waypoints[1].lat = Deg(40) /\ waypoints[1].lng = Deg(-105)) =>
          /\ bounds.southWest = <<Deg(40), Deg(-105)>>
          /\ bounds.northEast = <<Deg(40), Deg(-105)>>

C13_Witness ==
    /\ view = "done"
    /\ routeCoordinates = <<>>
    /\ Len(waypoints) = 1
    /\ waypoints[1].lat = Deg(40)
    /\ waypoints[1].lng = Deg(-105)
    /\ fitted.southWest = fitted.northEast

\* the stops the markers were rendered for, in order
MarkedStops == [i \in 1..Len(stopMarkers) |-> stopMarkers[i].stop]

\* C14: no stop marker is rendered for a stop whose lat is null or whose lng
\* is null, nor for a stop of type PICKUP or DROPOFF.
C14_NoNullNoPickupDropoff ==
    ElementsReturned =>
        \A i \in 1..Len(MarkedStops) :
            /\ ~MarkedStops[i].lat.isNull
            /\ ~MarkedStops[i].lng.isNull
            /\ MarkedStops[i].type \notin {"PICKUP", "DROPOFF"}

C14_Witness ==
    /\ view = "done"
    /\ Len(stops) = 2
    /\ stops[1].lat.isNull
    /\ stops[2].type = "DROPOFF"
    /\ ~stops[2].lat.isNull
    /\ stopMarkers = <<>>

\* both coordinates are there and the type is neither PICKUP nor DROPOFF
Qualifies(stop) ==
    /\ ~stop.lat.isNull
    /\ ~stop.lng.isNull
    /\ stop.type \notin {"PICKUP", "DROPOFF"}

\* C15: the stops with markers are exactly the stops with both coordinates
\* non-null and a type other than PICKUP and DROPOFF, a stop at latitude 0 or
\* longitude 0 among them.
C15_ExactlyQualifying ==
    ElementsReturned => MarkedStops = SelectSeq(stops, Qualifies)

\* the types stopIcon has a label for
Labelled == {"FUEL", "REST_BREAK", "OFF_DUTY"}

\* the stops that pass the test of the filter
Passing(stop) ==
    /\ ~stop.lat.isNull /\ stop.lat.num # 0
    /\ ~stop.lng.isNull /\ stop.lng.num # 0
    /\ stop.type \notin {"PICKUP", "DROPOFF"}

\* C16: a marker of a stop whose type is not FUEL, REST_BREAK or OFF_DUTY has a
\* defined icon with the generic glyph and the colour '#000000', and the raw
\* type as its name; every stop that passes the filter has its marker, whatever
\* the types of the other stops.
C16_UnknownStopFallback ==
    ElementsReturned =>
        /\ MarkedStops = SelectSeq(stops, Passing)
        /\ \A i \in 1..Len(stopMarkers) :
              /\ stopMarkers[i].icon.defined
              /\ MarkedStops[i].type \notin Labelled =>
                    /\ stopMarkers[i].icon.label = "U+2022"
                    /\ stopMarkers[i].icon.color = "#000000"
                    /\ stopMarkers[i].color = "#000000"
                    /\ stopMarkers[i].name = MarkedStops[i].type

C16_Witness ==
    /\ view = "done"
    /\ Len(stopMarkers) = 2
    /\ MarkedStops[1].type = "INSPECTION"
    /\ stopMarkers[1].name = "INSPECTION"
    /\ stopMarkers[1].icon.label = "U+2022"
    /\ stopMarkers[2].icon.label = "U+26FD"
    /\ stopMarkers[2].name = "Fuel Stop"

\* C17: every waypoint has its marker and every marker's icon is defined, a
\* waypoint of a type other than current, pickup and dropoff included.
C17_WaypointIconDefined ==
    ElementsReturned =>
        /\ Len(waypointMarkers) = Len(waypoints)
        /\ \A i \in 1..Len(waypointMarkers) : waypointMarkers[i].icon.defined

\* route.polyline ends in the middle of a value or has a character below 63
Malformed(p) ==
    ~p.isNull /\ (EndsMidValue(p.chars) \/ HasCharBelow63(p.chars))

\* C18: for a malformed route.polyline no render throws and the positions of
\* the polyline handed to the map are empty.
C18_MalformedGivesEmptyPolyline ==
    /\ (caller = "RouteMap" /\ Malformed(polyline)) => outcome # "threw"
    /\ (ElementsReturned /\ Malformed(polyline)) => positions = <<>>

\* C19: once the response of the newest fetch has been applied, the list is
\* never replaced by the response of an older fetch: a list that is shown was
\* set by the response of the newest fetch.
C19_StaleDiscarded ==
    (latestDone /\ suggestions # <<>>) => applied = fetchCount

\* a non-blank address, or both lat and lng non-null
HasPlace(loc) ==
    \/ \E i \in 1..Len(loc.address) : loc.address[i] # 32
    \/ ~loc.lat.isNull /\ ~loc.lng.isNull

\* C20: onSubmit is only ever called at step 4 with all three locations valid,
\* and at step s the location of every step below s is valid.
C20_ValidBelowStep ==
    /\ onSubmitCall.called =>
          /\ onSubmitCall.step = 4
          /\ \A j \in 1..3 : onSubmitCall.valid[j]
    /\ \A j \in 1..3 : j < currentStep => HasPlace(formData[FieldOf(j)])

C20_Witness ==
    /\ onSubmitCall.called
    /\ currentStep = 4
    /\ formData.currentLocation.address = <<>>
    /\ formData.pickupLocation.lat.isNull
    /\ formData.dropoffLocation.address # <<>>
    /\ ~formData.dropoffLocation.lat.isNull
    /\ formData.cycleUsedHours = 35

\* C21: when the request settles, isLoading becomes false, and either the
\* response is non-empty, tripResult is that response and error is null, or
\* error is a non-empty message and tripResult is as before, with the message
\* 'Received empty response from server' for an empty response; and the
\* request settling, isLoading does become false.
C21_SubmitOutcome ==
    /\ [][\A i \in 1..Len(pending), o \in Outcomes :
             Settle(i, o) =>
                /\ isLoading' = FALSE
                /\ IF o.ok /\ ~o.data.isNull
                   THEN tripResult' = o.data /\ error' = Null
                   ELSE /\ ~error'.isNull
                        /\ error'.chars # <<>>
                        /\ tripResult' = tripResult
                        /\ o.ok => error'.chars = Messages.empty]_vars
    /\ isLoading ~> ~isLoading

C21_Witness ==
    /\ onSubmitCall.called
    /\ ~isLoading
    /\ tripResult.isNull
    /\ error = Str(Messages.empty)

\* C22: the message shown for a caught error is the timeout message for code
\* ECONNABORTED; else the route explanation when the error's message contains
\* 'Unable to calculate route', structured or not; else the error's message
\* when it is structured or has a message; else the fallback message.
C22_MessagePrecedence ==
    (caught # <<>> /\ ~error.isNull) =>
        LET err == caught[1]
            timedOut == err.code = "ECONNABORTED"
            noRoute == Includes(err.message, Messages.needle)
            verbatim == err.isApiError \/ err.message # <<>>
        IN  /\ timedOut => error.chars = Messages.timeout
            /\ (~timedOut /\ noRoute) => error.chars = Messages.route
            /\ (~timedOut /\ ~noRoute /\ verbatim) => error.chars = err.message
            /\ (~timedOut /\ ~noRoute /\ ~verbatim) =>
                  error.chars = Messages.fallback

C22_Witness ==
    /\ caught # <<>>
    /\ caught[1].isApiError
    /\ caught[1].message = Backend.noRoute
    /\ error = Str(Messages.route)

\* a field of the body is there: the test the interceptor makes of it
Present(field) == ~field.isNull /\ field.chars # <<>>

\* C23: a failed request is never resolved: handleSubmit catches an error,
\* which is a new one with isApiError, the status of the response and the
\* message data.error when that is there, else data.detail when that is
\* there, and otherwise the error of the request itself.
C23_InterceptorRejects ==
    [][\A i \in 1..Len(pending), o \in Outcomes :
          (Settle(i, o) /\ ~o.ok) =>
             LET e == o.error
                 byError == e.response.present /\ Present(e.response.data.error)
                 byDetail == e.response.present /\ Present(e.response.data.detail)
                 r == caught'[1]
             IN  /\ Len(caught') = 1
                 /\ tripResult' = tripResult
                 /\ ~error'.isNull
                 /\ byError =>
                       /\ r.isApiError
                       /\ r.status = e.response.status
                       /\ r.message = e.response.data.error.chars
                 /\ (~byError /\ byDetail) =>
                       /\ r.isApiError
                       /\ r.status = e.response.status
                       /\ r.message = e.response.data.detail.chars
                 /\ (~byError /\ ~byDetail) => r = e]_vars

C23_Witness ==
    /\ caught # <<>>
    /\ caught[1].isApiError
    /\ caught[1].status = 500
    /\ caught[1].message = Backend.detail

\* what a call of handleNext must do to the wizard
NextOutcome ==
    IF StepPasses(currentStep, formData)
    THEN /\ currentStep' = (IF currentStep + 1 < 4 THEN currentStep + 1 ELSE 4)
         /\ validationError' = NoError
    ELSE /\ currentStep' = currentStep
         /\ formData' = formData
         /\ validationError' = StepMessage(currentStep)

\* C24: a call of handleNext, from Continue or from a submit before the last
\* step, moves to min(currentStep + 1, 4) and clears validationError when the
\* current step validates, and otherwise keeps currentStep and formData and
\* sets validationError to the message of the step; the step only grows by
\* one from a step that validates, and it stays within 1..4.
C24_NextOnlyWhenValid ==
    /\ [](currentStep \in 1..4)
    /\ [][(Continue \/ (currentStep < LastStep /\ HandleSubmit)) => NextOutcome]_vars
    /\ [][currentStep' > currentStep =>
             (StepPasses(currentStep, formData) /\ currentStep' = currentStep + 1)]_vars

C24_Witness ==
    /\ currentStep = 2
    /\ validationError = StepMessage(2)
    /\ ~StepPasses(2, formData)

\* C25: at most one timeout is pending; the debounced value changes only to
\* the current input, and only when the input has been unchanged for the full
\* delay, so no value the input has left is propagated; and when the input
\* stops changing, the debounced value is the input from some time on.
C25_Debounced ==
    /\ [](Cardinality(timers) <= 1)
    /\ [][debouncedAddress' # debouncedAddress =>
             /\ debouncedAddress' = value.address
             /\ value' = value
             /\ sinceChange = Delay]_vars
    /\ ([]<>(sinceChange = 0) \/ <>[](debouncedAddress = value.address))

C25_Witness ==
    /\ debouncedAddress # <<>>
    /\ debouncedAddress = value.address
    /\ timers = {}
    /\ sinceChange = Delay

\* C26: cycleUsedHours is within [0, 70] in every state, so step 4 validates
\* and the remaining hours 70 - cycleUsedHours are within [0, 70].
C26_CycleHoursInRange ==
    /\ formData.cycleUsedHours \in 0..70
    /\ StepPasses(4, formData)
    /\ (70 - formData.cycleUsedHours) \in 0..70

C26_Witness ==
    /\ currentStep = 4
    /\ formData.cycleUsedHours = 70

\* C27: at most one request is pending, one is exactly while isLoading, and a
\* request is only sent when none is pending, which sets isLoading.
C27_OneRequestInFlight ==
    /\ [](Len(pending) <= 1)
    /\ [](isLoading <=> Len(pending) = 1)
    /\ [](isLoading => ~ShowsForm(isLoading, tripResult))
    /\ [][Len(pending') > Len(pending) =>
             (pending = <<>> /\ ~isLoading /\ isLoading')]_vars

C27_Witness ==
    /\ onSubmitCall.called
    /\ isLoading
    /\ Len(pending) = 1

\* C28: when a submission fails, the form is shown with the error, at step 1
\* and with the default locations and hours.
C28_FormResetAfterFailure ==
    [][(isLoading /\ ~isLoading' /\ ~error'.isNull) =>
          /\ ShowsForm(isLoading', tripResult')
          /\ currentStep' = 1
          /\ formData' = defaultFormData
          /\ \A j \in 1..3 :
                /\ formData'[FieldOf(j)].address = <<>>
                /\ formData'[FieldOf(j)].lat.isNull
                /\ formData'[FieldOf(j)].lng.isNull
          /\ formData'.cycleUsedHours = 0]_vars

C28_Witness ==
    /\ onSubmitCall.called
    /\ pending = <<>>
    /\ ~isLoading
    /\ tripResult.isNull
    /\ ~error.isNull
    /\ currentStep = 1
    /\ formData = defaultFormData

\* the value's reads all fell inside the string and it has at most six
\* characters
ShortValue == InString /\ Len(ValueChars) <= 6

\* C29: for a value of at most 6 characters the 32-bit accumulation does not
\* wrap: result stays in [0, 2^30) while the value is read and at its end,
\* where it is the sum of the chunks on the integers, and the delta added to
\* the coordinate is the one of that sum.
C29_NoWrapUpTo6 ==
    /\ []((pc \in {"latdo", "lngdo", "latend", "lngend"} /\ ShortValue) =>
              (0 <= result /\ result < 2 ^ 30))
    /\ []((pc \in {"latend", "lngend"} /\ ShortValue) =>
              result = ChunkSum(ValueChars))
    /\ [][/\ (pc = "latend" /\ ShortValue) =>
                lat' = lat + Delta(ChunkSum(ValueChars))
          /\ (pc = "lngend" /\ ShortValue) =>
                lng' = lng + Delta(ChunkSum(ValueChars))]_vars

C29_Witness ==
    /\ pc = "latend"
    /\ InString
    /\ Len(ValueChars) = 6
    /\ result = 2 ^ 30 - 1

====
